---- MODULE Spec2Model ----
(***************************************************************************)
(* VSCX (Chupacabral/VSCX): a model of VSCX.temporaryMessage, the timed    *)
(* progress notification built from setInterval / setTimeout on top of     *)
(* vscode.window.withProgress.                                             *)
(*                                                                         *)
(* Time is wall-clock milliseconds since the call.  JavaScript numbers are *)
(* binary floating point with round-to-nearest-even; they are modelled on  *)
(* a grid of 2^-FracBits with the mantissa narrowed to FloatBits bits.     *)
(*                                                                         *)
(* withProgress is the host's: it may run the task before it returns (VS   *)
(* Code does) or afterwards, and the model allows both.  Timers fire at    *)
(* their deadline; timers due at the same instant fire in any order.       *)
(***************************************************************************)
EXTENDS Integers, Sequences, FiniteSets, TLC

\* ------------------------------------------------------------------ bounds
MsPerStep == 250
MaxTimeSteps == 4
MaxEndSteps == 2
MaxTicks == 6
ExtraSteps == 1

\* ------------------------------------------------- floating point numbers
FloatBits == 11
FracBits == 16

\* The numeric helpers are functions, so that an argument is evaluated once.
Pow2[n \in Nat] == IF n = 0 THEN 1 ELSE 2 * Pow2[n - 1]

One == Pow2[FracBits]

FromInt(n) == n * One

FloorLog2[v \in Nat] == IF v < 2 THEN 0 ELSE 1 + FloorLog2[v \div 2]

\* The spacing of the representable numbers around the grid value v > 0.
Ulp[v \in Nat] ==
  LET e == FloorLog2[v]
  IN  IF e >= FloatBits - 1 THEN Pow2[e - (FloatBits - 1)] ELSE 1

\* n / d (n >= 0 a grid value, d > 0 an integer) rounded to the nearest
\* representable number, ties to the even mantissa.
RoundRatio[n \in Nat, d \in Nat] ==
  LET f == n \div d
      u == IF f = 0 THEN 1 ELSE Ulp[f]
      q == n \div (d * u)
      r == n % (d * u)
      up == \/ 2 * r > d * u
            \/ (2 * r = d * u /\ q % 2 = 1)
  IN  (IF up THEN q + 1 ELSE q) * u

\* a / d for a grid value a of either sign.
Quotient[a \in Int, d \in Nat] ==
  IF a < 0 THEN 0 - RoundRatio[0 - a, d] ELSE RoundRatio[a, d]

Round(v) == Quotient[v, 1]

FAdd(a, b) == Round(a + b)

FSub(a, b) == Round(a - b)

FDivInt(a, d) == Quotient[a, d]

FMulInt(k, a) == Round(k * a)

\* Number.prototype.toFixed(0): the nearest integer, ties away from zero.
ToFixed0[v \in Int] ==
  IF v < 0 THEN 0 - ((2 * (0 - v) + One) \div (2 * One))
  ELSE (2 * v + One) \div (2 * One)

\* Number.prototype.toFixed(2), as an integer count of hundredths.
ToFixed2[v \in Int] ==
  IF v < 0 THEN 0 - ((200 * (0 - v) + One) \div (2 * One))
  ELSE (200 * v + One) \div (2 * One)

\* ----------------------------------------------------------------- inputs
Times == {MsPerStep * n : n \in 1..MaxTimeSteps}

EndLengths == {MsPerStep * n : n \in (0 - 1)..MaxEndSteps}

TickCounts == 1..MaxTicks

\* The tick interval (time - endLength) / ticks is a whole number of
\* milliseconds >= 1 for every call the model makes.
Calls ==
  {c \in [time : Times, endLength : EndLengths, ticks : TickCounts,
          cancellable : BOOLEAN] :
     /\ c.time - c.endLength >= c.ticks
     /\ (c.time - c.endLength) % c.ticks = 0}

MaxNow == MsPerStep * (MaxTimeSteps + ExtraSteps)

NoCall == [time |-> 0, endLength |-> 0, ticks |-> 1, cancellable |-> FALSE]

NoTimer == [active |-> FALSE, due |-> 0]

\* No library function other than temporaryMessage has been called.
NoLibraryCall == [fn |-> "none"]

VARIABLES
  pc,            \* "idle" before temporaryMessage is called, "returned" after
  args,          \* the arguments of the call
  taskStarted,   \* the withProgress task body has run up to its await
  now,           \* milliseconds since the call
  tickLoop,      \* the interval handle variable (-1 until setInterval)
  interval,      \* the recurring timer of setInterval
  jumpTimer,     \* the one-shot timer that sets 100%
  waitTimer,     \* the one-shot timer the task awaits
  percentage,    \* let percentage
  tick,          \* let tick
  currentMSLeft, \* let currentMSLeft
  reports,       \* the progress.report calls made so far, in order
  resolved,      \* the task's promise, hence the returned thenable, resolved
  resolvedAt,    \* the offset at which it resolved
  reportsAtResolve, \* how many reports had been made when it resolved
  cancelled,     \* the host's cancellation token has fired
  call           \* the call of a pure library function and what it returned

vars == <<pc, args, taskStarted, now, tickLoop, interval, jumpTimer, waitTimer,
          percentage, tick, currentMSLeft, reports, resolved, resolvedAt,
          reportsAtResolve, cancelled, call>>

Init ==
  /\ pc = "idle"
  /\ args = NoCall
  /\ taskStarted = FALSE
  /\ now = 0
  /\ tickLoop = 0 - 1
  /\ interval = NoTimer
  /\ jumpTimer = NoTimer
  /\ waitTimer = NoTimer
  /\ percentage = 0
  /\ tick = 0
  /\ currentMSLeft = 0
  /\ reports = <<>>
  /\ resolved = FALSE
  /\ resolvedAt = 0
  /\ reportsAtResolve = 0
  /\ cancelled = FALSE
  /\ call = NoLibraryCall

\* ------------------------------------------- VSCX.temporaryMessage (code)
\* setInterval(..., (time - endLength) / ticks)
TickDelay(c) == (c.time - c.endLength) \div c.ticks

\* A jump that is scheduled only for an endLength beyond one step.
JumpScheduledLate(c) == c.endLength > MsPerStep

\* if (endLength > 0) { setTimeout(...) }
JumpScheduled(c) == c.endLength > 0

\* A one-shot timer set for the whole duration instead of the mark.
JumpDelayWholeTime(c) == c.time

\* setTimeout(..., time - endLength)
JumpDelay(c) == c.time - c.endLength

\* A wait that ends at the mark instead of after the whole duration.
WaitDelayToMark(c) == c.time - c.endLength

\* await new Promise((r) => setTimeout(r, time))
WaitDelay(c) == c.time

\* 100 / ticks
TickIncrement(c) == FDivInt(FromInt(100), c.ticks)

\* percentage = percentage >= 100 ? 100 : percentage + 100 / ticks
NextPercentage(p, c) ==
  IF p >= FromInt(100) THEN FromInt(100) ELSE FAdd(p, TickIncrement(c))

\* const msLeft = () => time - time * (percentage / 100)
msLeft(p, c) == FSub(FromInt(c.time), FMulInt(c.time, FDivInt(p, 100)))

\* The TemporaryMessageUpdate handed to updateMessage; ms in whole
\* milliseconds (toFixed(0)), seconds in hundredths (toFixed(2)).
TemporaryMessageUpdate(t, p, left, c) ==
  [tick |-> t,
   percentage |-> p,
   msPassed |-> ToFixed0[FSub(FromInt(c.time), left)],
   msLeft |-> ToFixed0[left],
   secondsPassed |-> ToFixed2[FDivInt(FSub(FromInt(c.time), left), 1000)],
   secondsLeft |-> ToFixed2[FDivInt(left, 1000)]]

NoUpdate ==
  [tick |-> 0, percentage |-> 0, msPassed |-> 0, msLeft |-> 0,
   secondsPassed |-> 0, secondsLeft |-> 0]

\* A first report that fills the bar instead of emptying it.
InitialReportFull(at) ==
  [kind |-> "start", increment |-> FromInt(100), at |-> at,
   update |-> NoUpdate]

\* progress.report({ increment: 0 })
InitialReport(at) ==
  [kind |-> "start", increment |-> 0, at |-> at, update |-> NoUpdate]

\* progress.report({ increment: 100 / ticks, message: updateMessage(...) })
TickReport(at, t, p, left, c) ==
  [kind |-> "tick", increment |-> TickIncrement(c), at |-> at,
   update |-> TemporaryMessageUpdate(t, p, left, c)]

\* A final report that adds half a bar instead of a whole one.
JumpReportHalf(at) ==
  [kind |-> "jump", increment |-> FromInt(50), at |-> at, update |-> NoUpdate]

\* progress.report({ increment: 100 })
JumpReport(at) ==
  [kind |-> "jump", increment |-> FromInt(100), at |-> at, update |-> NoUpdate]

\* clearInterval(tickLoop): clears the timer the handle names, if any.
ClearInterval(handle, timer) ==
  IF handle = 1 THEN [timer EXCEPT !.active = FALSE] ELSE timer

\* The timers the task body leaves behind when it reaches its await.
TaskInterval(c, at) == [active |-> TRUE, due |-> at + TickDelay(c)]

TaskJumpTimer(c, at) ==
  IF JumpScheduled(c) THEN [active |-> TRUE, due |-> at + JumpDelay(c)]
  ELSE NoTimer

TaskWaitTimer(c, at) == [active |-> TRUE, due |-> at + WaitDelay(c)]

\* temporaryMessage(message, time, {ticks, endLength, cancellable}): the
\* whole synchronous call.  The host either runs the task inside
\* withProgress (sync) or after the call has returned; either way the call
\* ends with clearInterval(tickLoop).
temporaryMessage(c, sync) ==
  /\ pc = "idle"
  /\ pc' = "returned"
  /\ args' = c
  /\ taskStarted' = sync
  /\ tickLoop' = IF sync THEN 1 ELSE tickLoop
  /\ interval' = ClearInterval(tickLoop',
                    IF sync THEN TaskInterval(c, now) ELSE interval)
  /\ jumpTimer' = IF sync THEN TaskJumpTimer(c, now) ELSE jumpTimer
  /\ waitTimer' = IF sync THEN TaskWaitTimer(c, now) ELSE waitTimer
  /\ currentMSLeft' = IF sync THEN FromInt(c.time) ELSE currentMSLeft
  /\ reports' = IF sync THEN Append(reports, InitialReport(now)) ELSE reports
  /\ UNCHANGED call
  /\ UNCHANGED <<now, percentage, tick, resolved, resolvedAt,
                 reportsAtResolve, cancelled>>

\* The host runs the task after temporaryMessage has returned: the body of
\* the async callback up to its await.
HostRunsTask ==
  /\ pc = "returned"
  /\ ~taskStarted
  /\ taskStarted' = TRUE
  /\ reports' = Append(reports, InitialReport(now))
  /\ percentage' = 0
  /\ tick' = 0
  /\ currentMSLeft' = FromInt(args.time)
  /\ tickLoop' = 1
  /\ interval' = TaskInterval(args, now)
  /\ jumpTimer' = TaskJumpTimer(args, now)
  /\ waitTimer' = TaskWaitTimer(args, now)
  /\ UNCHANGED call
  /\ UNCHANGED <<pc, args, now, resolved, resolvedAt, reportsAtResolve,
                 cancelled>>

Due(timer) == timer.active /\ timer.due <= now

\* The setInterval callback.
TickCallback ==
  LET t == tick + 1
      p == NextPercentage(percentage, args)
      left == msLeft(p, args)
  IN  /\ pc = "returned"
      /\ Due(interval)
      /\ tick' = t
      /\ percentage' = p
      /\ currentMSLeft' = left
      /\ reports' = Append(reports, TickReport(now, t, p, left, args))
      /\ interval' = [interval EXCEPT !.due = now + TickDelay(args)]
      /\ UNCHANGED call
      /\ UNCHANGED <<pc, args, taskStarted, now, tickLoop, jumpTimer,
                     waitTimer, resolved, resolvedAt, reportsAtResolve,
                     cancelled>>

\* A 100% callback that also stops the tick timer.
JumpCallbackStoppingTicks ==
  /\ pc = "returned"
  /\ Due(jumpTimer)
  /\ reports' = Append(reports, JumpReport(now))
  /\ percentage' = FromInt(100)
  /\ jumpTimer' = [jumpTimer EXCEPT !.active = FALSE]
  /\ interval' = [interval EXCEPT !.active = FALSE]
  /\ UNCHANGED call
  /\ UNCHANGED <<pc, args, taskStarted, now, tickLoop, waitTimer,
                 tick, currentMSLeft, resolved, resolvedAt, reportsAtResolve,
                 cancelled>>

\* The setTimeout callback that sets the bar to 100%.
JumpCallback ==
  /\ pc = "returned"
  /\ Due(jumpTimer)
  /\ reports' = Append(reports, JumpReport(now))
  /\ percentage' = FromInt(100)
  /\ jumpTimer' = [jumpTimer EXCEPT !.active = FALSE]
  /\ UNCHANGED call
  /\ UNCHANGED <<pc, args, taskStarted, now, tickLoop, interval, waitTimer,
                 tick, currentMSLeft, resolved, resolvedAt, reportsAtResolve,
                 cancelled>>

\* The timer the task awaits fires: the task's promise resolves, and with
\* it the thenable temporaryMessage returned.
WaitCallback ==
  /\ pc = "returned"
  /\ Due(waitTimer)
  /\ waitTimer' = [waitTimer EXCEPT !.active = FALSE]
  /\ resolved' = TRUE
  /\ resolvedAt' = now
  /\ reportsAtResolve' = Len(reports)
  /\ UNCHANGED call
  /\ UNCHANGED <<pc, args, taskStarted, now, tickLoop, interval, jumpTimer,
                 percentage, tick, currentMSLeft, reports, cancelled>>

\* The user presses the notification's cancel button: the host fires the
\* token, which the task never reads.
Cancel ==
  /\ pc = "returned"
  /\ taskStarted
  /\ args.cancellable
  /\ ~resolved
  /\ ~cancelled
  /\ cancelled' = TRUE
  /\ UNCHANGED call
  /\ UNCHANGED <<pc, args, taskStarted, now, tickLoop, interval, jumpTimer,
                 waitTimer, percentage, tick, currentMSLeft, reports, resolved,
                 resolvedAt, reportsAtResolve>>

\* ------------------------------------------------------------ event loop
Deadlines ==
  {t.due : t \in {x \in {interval, jumpTimer, waitTimer} : x.active}}

NextDeadline == CHOOSE d \in Deadlines : \A e \in Deadlines : d <= e

\* The clock moves to the next deadline once every due callback has run.
Advance ==
  /\ pc = "returned"
  /\ taskStarted
  /\ Deadlines # {}
  /\ NextDeadline > now
  /\ NextDeadline <= MaxNow
  /\ now' = NextDeadline
  /\ UNCHANGED call
  /\ UNCHANGED <<pc, args, taskStarted, tickLoop, interval, jumpTimer,
                 waitTimer, percentage, tick, currentMSLeft, reports, resolved,
                 resolvedAt, reportsAtResolve, cancelled>>

Next ==
  \/ \E c \in Calls, sync \in BOOLEAN : temporaryMessage(c, sync)
  \/ HostRunsTask
  \/ TickCallback
  \/ JumpCallback
  \/ WaitCallback
  \/ Cancel
  \/ Advance

Spec == Init /\ [][Next]_vars

\* The event loop runs every due callback and the clock does not stop.
FairSpec ==
  /\ Spec
  /\ WF_vars(HostRunsTask)
  /\ WF_vars(TickCallback)
  /\ WF_vars(JumpCallback)
  /\ WF_vars(WaitCallback)
  /\ WF_vars(Advance)

TypeOK ==
  /\ pc \in {"idle", "returned"}
  /\ tickLoop \in {0 - 1, 1}
  /\ now \in 0..MaxNow

\* ----------------------------------------------------- reading the reports
Min(a, b) == IF a < b THEN a ELSE b

\* The indicator of a host that adds up the reported increments and caps
\* the total at 100.
RECURSIVE Bar(_)
Bar(seq) ==
  IF seq = <<>> THEN 0
  ELSE Min(FromInt(100),
           Bar(SubSeq(seq, 1, Len(seq) - 1)) + seq[Len(seq)].increment)

BarAfter(i) == Bar(SubSeq(reports, 1, i))

TickIndices == {i \in DOMAIN reports : reports[i].kind = "tick"}

JumpIndices == {i \in DOMAIN reports : reports[i].kind = "jump"}

\* The offset at which the ticks are meant to end and the bar to be full.
Mark == args.time - args.endLength

\* ------------------------------------------------------------------ claims

\* C1: the recurring tick timer runs for as long as the returned operation
\* is pending and is stopped once it has resolved: it is cleared at
\* resolution, not before, and no tick can fire after resolution.
C1_TickTimerStoppedAtResolution ==
  taskStarted => (interval.active <=> ~resolved)

\* C2: with endLength = 0, exactly `ticks` tick reports have been issued when
\* the returned operation resolves, each with increment 100 / ticks, and
\* together they fill the bar.
C2_ExactlyTicksReports ==
  (resolved /\ args.endLength = 0) =>
    /\ Cardinality({i \in TickIndices : i <= reportsAtResolve}) = args.ticks
    /\ \A i \in TickIndices : reports[i].increment = TickIncrement(args)
    /\ BarAfter(reportsAtResolve) = FromInt(100)

\* C3: the returned operation never resolves before `time` milliseconds
\* have passed since the call, and every call eventually resolves.
C3_ResolvesAtDuration ==
  /\ [](resolved => resolvedAt >= args.time)
  /\ ((pc = "returned") ~> resolved)

C3_Witness == resolved /\ resolvedAt = args.time /\ args.time > 0

\* C4: with endLength > 0 there is a report that sets the bar to exactly 100,
\* made at offset time - endLength; with endLength <= 0 no such report is
\* scheduled or made.
C4_JumpAtMark ==
  /\ \A i \in JumpIndices :
       /\ args.endLength > 0
       /\ reports[i].at = Mark
       /\ BarAfter(i) = FromInt(100)
  /\ Cardinality(JumpIndices) <= 1
  /\ (taskStarted /\ args.endLength > 0 /\ now > Mark) => JumpIndices # {}
  /\ (taskStarted /\ args.endLength > 0 /\ JumpIndices = {}) =>
       (jumpTimer.active /\ jumpTimer.due = Mark)
  /\ (taskStarted /\ args.endLength <= 0) =>
       (~jumpTimer.active /\ JumpIndices = {})

C4_Witness ==
  /\ JumpIndices # {}
  /\ args.endLength > 0
  /\ now = Mark

\* C5: with endLength > 0 and a host that adds up the increments, capped at
\* 100, the bar is below 100 before offset time - endLength, is at 100 from
\* that offset on, and the operation resolves endLength milliseconds later.
C5_HeldAtFullForEndLength ==
  (taskStarted /\ args.endLength > 0) =>
    /\ \A i \in DOMAIN reports :
         BarAfter(i) = FromInt(100) => reports[i].at >= Mark
    /\ now > Mark => Bar(reports) = FromInt(100)
    /\ resolved =>
         /\ BarAfter(reportsAtResolve) = FromInt(100)
         /\ resolvedAt - Mark = args.endLength

C5_Witness ==
  /\ resolved
  /\ args.endLength > 0
  /\ Bar(reports) = FromInt(100)
  /\ now = args.time

\* The phase of the run: 0 before the task starts, 1 Initializing (the 0%
\* report is out and no time has passed), 2 Ticking, 3 Holding (percentage
\* at 100), 4 Done (resolved).
PhaseRank ==
  IF ~taskStarted THEN 0
  ELSE IF resolved THEN 4
  ELSE IF percentage >= FromInt(100) THEN 3
  ELSE IF now > 0 THEN 2
  ELSE 1

\* A step in which the clock moved or a timer callback ran.
TimerStep ==
  \/ now' # now
  \/ Len(reports') > Len(reports)
  \/ resolved' # resolved

\* C6 as stated: every run goes through Initializing, Ticking, Holding and
\* Done one after the other, skipping none and never going back, and only
\* the clock and the timers move it from one phase to the next.
C6_EveryPhaseInOrder ==
  [][/\ PhaseRank' \in {PhaseRank, PhaseRank + 1}
     /\ (PhaseRank >= 1 /\ PhaseRank' # PhaseRank) => TimerStep
     /\ cancelled' # cancelled => PhaseRank' = PhaseRank]_vars

\* C6 as amended: the phase never goes back, only the clock and the timers
\* move it, a cancellation leaves it alone, and when endLength > 0 no phase
\* is skipped (with endLength <= 0 a run may go from Ticking to Done).
C6_PhasesInOrder ==
  [][/\ PhaseRank' >= PhaseRank
     /\ args'.endLength > 0 => PhaseRank' \in {PhaseRank, PhaseRank + 1}
     /\ (PhaseRank >= 1 /\ PhaseRank' # PhaseRank) => TimerStep
     /\ cancelled' # cancelled => PhaseRank' = PhaseRank]_vars

C6_Witness ==
  /\ PhaseRank = 4
  /\ args.endLength > 0
  /\ cancelled
  /\ JumpIndices # {}

\* C7: tick reports are made only up to offset time - endLength, and none
\* is made between the report that sets 100% and the resolution.
C7_NoTickWhileHolding ==
  /\ \A i \in TickIndices :
       (~resolved \/ i <= reportsAtResolve) => reports[i].at <= Mark
  /\ \A j \in JumpIndices : \A i \in TickIndices :
       i > j => (resolved /\ i > reportsAtResolve)

\* C8: the first report is the increment of 0, made at the moment of the
\* call, before any tick report and before the 100% report; it is made
\* once, as soon as the task runs.
C8_FirstReportIsZero ==
  /\ taskStarted <=> reports # <<>>
  /\ reports # <<>> =>
       /\ reports[1].kind = "start"
       /\ reports[1].increment = 0
       /\ reports[1].at = 0
       /\ Bar(SubSeq(reports, 1, 1)) = 0
       /\ \A i \in DOMAIN reports : i > 1 => reports[i].kind # "start"

C8_Witness ==
  /\ TickIndices # {}
  /\ JumpIndices # {}
  /\ reports[1].kind = "start"

\* C9: the percentage is between 0 and 100 in every state, and so is the
\* percentage of every update handed to updateMessage.
C9_PercentageWithinRange ==
  /\ 0 <= percentage
  /\ percentage <= FromInt(100)
  /\ \A i \in TickIndices :
       /\ 0 <= reports[i].update.percentage
       /\ reports[i].update.percentage <= FromInt(100)

\* C10: in every update, ms.passed is the time that has passed since the
\* call, ms.left is the duration minus that, and the seconds are the same
\* values divided by 1000 (to two decimals).
C10_UpdateTimesAreElapsed ==
  \A i \in TickIndices :
    /\ reports[i].update.msPassed = reports[i].at
    /\ reports[i].update.msLeft = args.time - reports[i].at
    /\ reports[i].update.secondsPassed =
         ToFixed2[FromInt(reports[i].at) \div 1000]
    /\ reports[i].update.secondsLeft =
         ToFixed2[FromInt(args.time - reports[i].at) \div 1000]


\* ===================================================== quickpick strings
\* Item strings are sequences of characters.  The inputs are built from the
\* pieces the string syntax gives a meaning to, and a letter.
MaxPieces == 5

Marker == <<"-", "-", "-", "-", "-">>

Pieces == {Marker, <<"-">>, <<":", ":">>, <<"?", "?">>, <<" ">>, <<"a">>}

RECURSIVE Concat(_)
Concat(ps) == IF ps = <<>> THEN <<>> ELSE Head(ps) \o Concat(Tail(ps))

Texts == {Concat(ps) : ps \in UNION {[1..n -> Pieces] : n \in 0..MaxPieces}}

WhiteSpace == {" ", "\t"}

\* String.prototype.startsWith
startsWith(s, p) == Len(s) >= Len(p) /\ SubSeq(s, 1, Len(p)) = p

\* String.prototype.slice(from, to), for 0 <= from <= to
slice(s, from, to) == SubSeq(s, from + 1, Min(to, Len(s)))

\* String.prototype.trimStart
RECURSIVE trimStart(_)
trimStart(s) ==
  IF s # <<>> /\ Head(s) \in WhiteSpace THEN trimStart(Tail(s)) ELSE s

\* String.prototype.trimEnd
RECURSIVE trimEnd(_)
trimEnd(s) ==
  IF s # <<>> /\ s[Len(s)] \in WhiteSpace
  THEN trimEnd(SubSeq(s, 1, Len(s) - 1))
  ELSE s

\* A trim that leaves the trailing white space.
trimLeadingOnly(s) == trimStart(s)

\* String.prototype.trim
trim(s) == trimEnd(trimStart(s))

\* String.prototype.indexOf, counted from 1; 0 when p does not occur in s.
indexOf(s, p) ==
  LET hits == {i \in 1..(Len(s) - Len(p) + 1) :
                 SubSeq(s, i, i + Len(p) - 1) = p}
  IN IF hits = {} THEN 0 ELSE CHOOSE i \in hits : \A j \in hits : i <= j

\* String.prototype.split with a non-empty separator: the pieces between the
\* occurrences of the separator, found from left to right.
RECURSIVE stringSplit(_, _)
stringSplit(s, pattern) ==
  LET i == indexOf(s, pattern)
  IN IF i = 0
     THEN <<s>>
     ELSE <<SubSeq(s, 1, i - 1)>>
            \o stringSplit(SubSeq(s, i + Len(pattern), Len(s)), pattern)

\* Array.prototype.join
RECURSIVE join(_, _)
join(parts, pattern) ==
  IF Len(parts) = 0 THEN <<>>
  ELSE IF Len(parts) = 1 THEN parts[1]
  ELSE parts[1] \o pattern \o join(Tail(parts), pattern)

\* A split at the last occurrence of the pattern instead of the first.
splitAtLast(s, pattern) ==
  LET parts == stringSplit(s, pattern)
  IN IF Len(parts) > 2
     THEN <<join(SubSeq(parts, 1, Len(parts) - 1), pattern),
            parts[Len(parts)]>>
     ELSE parts

\* A split that keeps the second part only and drops what follows it.
splitDroppingRest(s, pattern) ==
  LET parts == stringSplit(s, pattern)
  IN IF Len(parts) > 2 THEN <<parts[1], parts[2]>> ELSE parts

\* const split = (s, pattern) => ...: at most two parts, the second one
\* keeping every later occurrence of the pattern.
split(s, pattern) ==
  LET parts == stringSplit(s, pattern)
  IN IF Len(parts) > 2
     THEN <<parts[1], join(Tail(parts), pattern)>>
     ELSE parts

\* A separator that takes its detail from the text after the marker.
SeparatorItemWithDetail(text) ==
  [label  |-> trimStart(slice(text, 0, 5)),
   kind   |-> "SEP",
   detail |-> trim(slice(text, 5, Len(text)))]

\* A separator that also carries alwaysShow.
SeparatorItemShown(text) ==
  [alwaysShow |-> TRUE,
   label      |-> trimStart(slice(text, 0, 5)),
   kind       |-> "SEP"]

\* The separator branch: { label: text.slice(0, 5).trimStart(), kind: 'SEP' }
SeparatorItem(text) ==
  [label |-> trimStart(slice(text, 0, 5)), kind |-> "SEP"]

\* An entry that has a description only when there is one to show.
PickItemSparse(label, description, detail) ==
  IF trim(description) = <<>>
  THEN [alwaysShow |-> TRUE, label |-> trim(label), detail |-> trim(detail)]
  ELSE [alwaysShow  |-> TRUE,
        label       |-> trim(label),
        description |-> trim(description),
        detail      |-> trim(detail)]

\* An entry that is not always shown.
PickItemHidden(label, description, detail) ==
  [alwaysShow  |-> FALSE,
   label       |-> trim(label),
   description |-> trim(description),
   detail      |-> trim(detail)]

\* The last return of _strToQP.
PickItem(label, description, detail) ==
  [alwaysShow  |-> TRUE,
   label       |-> trim(label),
   description |-> trim(description),
   detail      |-> trim(detail)]

\* A description taken from the second split only when the first split set
\* none.
DescriptionWhenUnset(description, secondSplit) ==
  IF Len(secondSplit) > 1 /\ description = <<>>
  THEN secondSplit[1]
  ELSE description

\* if (secondSplit.length > 1) { if (description !== '') { description =
\* secondSplit[0]; } ... }
DescriptionAfterSecondSplit(description, secondSplit) ==
  IF Len(secondSplit) > 1 /\ description # <<>>
  THEN secondSplit[1]
  ELSE description

_strToQP(text) ==
  IF startsWith(text, Marker)
  THEN SeparatorItem(text)
  ELSE
    LET firstSplit   == split(text, <<":", ":">>)
        label        == firstSplit[1]
        description1 == IF Len(firstSplit) > 1 THEN firstSplit[2] ELSE <<>>
        text2        == IF Len(firstSplit) > 1
                        THEN firstSplit[2]
                        ELSE firstSplit[1]
        secondSplit  == split(text2, <<"?", "?">>)
        description  == DescriptionAfterSecondSplit(description1, secondSplit)
        detail       == IF Len(secondSplit) > 1 THEN secondSplit[2] ELSE <<>>
    IN PickItem(label, description, detail)

\* quickpick maps a string item through _strToQP.
quickpick ==
  /\ call = NoLibraryCall
  /\ \E item \in Texts :
       call' = [fn |-> "quickpick", item |-> item, entry |-> _strToQP(item)]
  /\ UNCHANGED <<pc, args, taskStarted, now, tickLoop, interval, jumpTimer,
                 waitTimer, percentage, tick, currentMSLeft, reports, resolved,
                 resolvedAt, reportsAtResolve, cancelled>>

\* ======================================================= JavaScript values
Undefined == [type |-> "undefined"]

Null == [type |-> "null"]

Str(s) == [type |-> "string", value |-> s]

Bool(b) == [type |-> "boolean", value |-> b]

Num(n) == [type |-> "number", value |-> n]

\* Boolean(v): undefined, null, '', false and 0 are falsy.
ToBoolean(v) == v \notin {Undefined, Null, Str(""), Bool(FALSE), Num(0)}

\* ================================================== VSCX.commandExists
MaxNames == 3

\* Command identifiers, and the lists of them a caller may pass.
CommandIds == {"a", "b", "c"}

NameLists == UNION {[1..n -> CommandIds] : n \in 0..MaxNames}

\* Array.prototype.find with the test (name) => commands.includes(name): the
\* first name of the list that is in commands, undefined when there is none.
findIncluded(commandNames, commands) ==
  LET hits == {i \in 1..Len(commandNames) : commandNames[i] \in commands}
  IN IF hits = {}
     THEN Undefined
     ELSE Str(commandNames[CHOOSE i \in hits : \A j \in hits : i <= j])

\* return Boolean(commandNames.find((name) => commands.includes(name)))
commandExistsResult(commandNames, commands) ==
  ToBoolean(findIncluded(commandNames, commands))

\* commandExists(...commandNames), where the host's getCommands answers with
\* the commands registered at that moment.
commandExists(commandNames, commands) ==
  /\ call = NoLibraryCall
  /\ call' = [fn           |-> "commandExists",
              commandNames |-> commandNames,
              commands     |-> commands,
              returned     |-> commandExistsResult(commandNames, commands)]
  /\ UNCHANGED <<pc, args, taskStarted, now, tickLoop, interval, jumpTimer,
                 waitTimer, percentage, tick, currentMSLeft, reports, resolved,
                 resolvedAt, reportsAtResolve, cancelled>>

\* ======================================================= VSCX.getInput
MaxCalls == 2

\* An options object is a record of the properties it has.
Obj(fields) == [type |-> "object", fields |-> fields]

\* Values a caller may set valueOnCancel to: truthy and falsy ones.
CancelValues ==
  {Undefined, Null, Str(""), Str("x"), Bool(FALSE), Num(0), Num(1)}

\* What a caller may pass: a prompt string, an options object without or
\* with valueOnCancel, and a value that is neither.
OptionsGiven ==
  {Str("p"), Null, Obj([prompt |-> Str("p")])}
    \cup {Obj([prompt |-> Str("p"), valueOnCancel |-> v]) : v \in CancelValues}

\* What showInputBox resolves to: the submitted text, or undefined when the
\* box is cancelled.
InputBoxAnswers == {Str(""), Str("x"), Undefined}

\* 'valueOnCancel' in options ? options.valueOnCancel : undefined
ValueOnCancel(options) ==
  IF "valueOnCancel" \in DOMAIN options.fields
  THEN options.fields.valueOnCancel
  ELSE Undefined

\* delete options.valueOnCancel
DeleteValueOnCancel(options) ==
  Obj([k \in DOMAIN options.fields \ {"valueOnCancel"} |-> options.fields[k]])

\* if (valueOnCancel) { delete options.valueOnCancel; }
OptionsAfterCall(options) ==
  IF options.type = "object" /\ ToBoolean(ValueOnCancel(options))
  THEN DeleteValueOnCancel(options)
  ELSE options

\* The argument of showInputBox: { prompt: options } or { ...options }.
InputBoxOptions(options) ==
  IF options.type = "string"
  THEN Obj([prompt |-> options])
  ELSE OptionsAfterCall(options)

\* An operator that yields its right operand for every falsy left operand.
OrElse(left, right) == IF ToBoolean(left) THEN left ELSE right

\* left ?? right
Nullish(left, right) == IF left \in {Undefined, Null} THEN right ELSE left

\* The value of the return statement once showInputBox has resolved.
getInputResult(options, valueOnCancel, answer) ==
  IF options.type = "string" THEN answer ELSE Nullish(answer, valueOnCancel)

\* getInput up to its await, or to its throw.  given is the argument as it
\* was when the call was made, options the caller's object as it is now, and
\* first the object as the caller made it before its first call.
GetInputCalled(options, calls, first) ==
  IF options.type \in {"string", "object"}
  THEN [fn            |-> "getInput",
        pc            |-> "awaiting",
        calls         |-> calls,
        first         |-> first,
        given         |-> options,
        options       |-> OptionsAfterCall(options),
        valueOnCancel |-> IF options.type = "object"
                          THEN ValueOnCancel(options)
                          ELSE Undefined,
        shown         |-> InputBoxOptions(options),
        answer        |-> Undefined,
        returned      |-> Undefined]
  ELSE [fn            |-> "getInput",
        pc            |-> "thrown",
        calls         |-> calls,
        first         |-> first,
        given         |-> options,
        options       |-> options,
        valueOnCancel |-> Undefined,
        shown         |-> Undefined,
        answer        |-> Undefined,
        returned      |-> Undefined]

\* The first call of getInput.
getInput(options) ==
  /\ call = NoLibraryCall
  /\ call' = GetInputCalled(options, 1, options)
  /\ UNCHANGED <<pc, args, taskStarted, now, tickLoop, interval, jumpTimer,
                 waitTimer, percentage, tick, currentMSLeft, reports, resolved,
                 resolvedAt, reportsAtResolve, cancelled>>

\* The caller calls getInput again with the same options object.
getInputAgain ==
  /\ call.fn = "getInput"
  /\ call.pc = "returned"
  /\ call.calls < MaxCalls
  /\ call' = GetInputCalled(call.options, call.calls + 1, call.first)
  /\ UNCHANGED <<pc, args, taskStarted, now, tickLoop, interval, jumpTimer,
                 waitTimer, percentage, tick, currentMSLeft, reports, resolved,
                 resolvedAt, reportsAtResolve, cancelled>>

\* The user accepts or cancels the input box: showInputBox resolves and
\* getInput returns.
InputBoxSettles(answer) ==
  /\ call.fn = "getInput"
  /\ call.pc = "awaiting"
  /\ call' = [call EXCEPT
       !.pc = "returned",
       !.answer = answer,
       !.returned = getInputResult(call.given, call.valueOnCancel, answer)]
  /\ UNCHANGED <<pc, args, taskStarted, now, tickLoop, interval, jumpTimer,
                 waitTimer, percentage, tick, currentMSLeft, reports, resolved,
                 resolvedAt, reportsAtResolve, cancelled>>

\* ========================================================= VSCX.indent
MaxLineLen == 4

MaxTabSize == 2

MaxOffset == 3

\* The text of the line the cursor is on.
LineChars == {" ", "\t", "a"}

LineTexts == UNION {[1..n -> LineChars] : n \in 0..MaxLineLen}

\* The active editor's options: insertSpaces and tabSize.
EditorOptions ==
  [insertSpaces : BOOLEAN, tabSize : 1..MaxTabSize]

Offsets == (0 - MaxOffset)..MaxOffset

\* String.prototype.repeat, for count >= 0
RECURSIVE repeat(_, _)
repeat(s, count) == IF count <= 0 THEN <<>> ELSE s \o repeat(s, count - 1)

\* editor.options.insertSpaces ? ' '.repeat(Number(tabSize)) : '\t'
indentText(options) ==
  IF options.insertSpaces THEN repeat(<<" ">>, options.tabSize) ELSE <<"\t">>

\* TextLine.firstNonWhitespaceCharacterIndex, counted from 0: the length of
\* the line when it is all white space.
firstNonWhitespaceCharacterIndex(text) ==
  LET ink == {i \in 1..Len(text) : text[i] \notin WhiteSpace}
  IN IF ink = {} THEN Len(text)
     ELSE (CHOOSE i \in ink : \A j \in ink : i <= j) - 1

\* Array.from(s.matchAll(new RegExp(pattern, 'g'))).map((t) => t[0]): the
\* occurrences of the pattern, found from left to right without overlap.
RECURSIVE matchAll(_, _)
matchAll(s, pattern) ==
  LET i == indexOf(s, pattern)
  IN IF i = 0 THEN <<>>
     ELSE <<pattern>> \o matchAll(SubSeq(s, i + Len(pattern), Len(s)), pattern)

\* get currentLineIndentation(): { list, amount, text: currentLine.text }
currentLineIndentation(text, options) ==
  LET firstText == firstNonWhitespaceCharacterIndex(text)
      list == matchAll(slice(text, 0, firstText), indentText(options))
  IN [list |-> list, amount |-> Len(list), text |-> text]

\* offset(n) { const level = this.currentLevel + n;
\*             return level + n <= 0 ? '' : indent?.repeat(level); }
\* repeat throws a RangeError for a negative count.
offset(currentLevel, tab, n) ==
  LET level == currentLevel + n
  IN IF level + n <= 0 THEN Str(<<>>)
     ELSE IF level < 0 THEN [type |-> "RangeError"]
     ELSE Str(repeat(tab, level))

\* current: indentInfo?.text
current(indentInfo) == indentInfo.text

\* VSCX.indent read with an editor open, and its offset(n) called.
indent ==
  /\ call = NoLibraryCall
  /\ \E text \in LineTexts, options \in EditorOptions, n \in Offsets :
       LET indentInfo == currentLineIndentation(text, options)
       IN call' = [fn           |-> "indent",
                   text         |-> text,
                   options      |-> options,
                   list         |-> indentInfo.list,
                   currentLevel |-> indentInfo.amount,
                   current      |-> current(indentInfo),
                   n            |-> n,
                   returned     |-> offset(indentInfo.amount,
                                           indentText(options), n)]
  /\ UNCHANGED <<pc, args, taskStarted, now, tickLoop, interval, jumpTimer,
                 waitTimer, percentage, tick, currentMSLeft, reports, resolved,
                 resolvedAt, reportsAtResolve, cancelled>>

\* ================================================ VSCX.withinCharLimit
MaxTextLen == 5

MaxLimit == 3

ParagraphChars == {"a", "b", " "}

Paragraphs == UNION {[1..n -> ParagraphChars] : n \in 0..MaxTextLen}

Limits == 0..MaxLimit

Prefixes == {<<>>, <<"a">>, <<"a", " ">>}

\* text.split(/\s+/): the pieces between the runs of white space; a run at
\* either end leaves an empty piece there.
RECURSIVE splitWhiteSpace(_)
splitWhiteSpace(s) ==
  LET blanks == {i \in 1..Len(s) : s[i] \in WhiteSpace}
  IN IF blanks = {} THEN <<s>>
     ELSE
       LET i == CHOOSE k \in blanks : \A j \in blanks : k <= j
           inks == {k \in (i + 1)..Len(s) : s[k] \notin WhiteSpace}
           next == IF inks = {} THEN Len(s) + 1
                   ELSE CHOOSE k \in inks : \A j \in inks : k <= j
       IN <<SubSeq(s, 1, i - 1)>>
            \o splitWhiteSpace(SubSeq(s, next, Len(s)))

\* A test that looks at the word alone.
TooLongAlone(currentLine, word, limit) == Len(word) > limit

\* currentLine.length + word.length > limit
TooLong(currentLine, word, limit) == Len(currentLine) + Len(word) > limit

\* The body of the for loop, for one word.
LineStep(state, word, limit, prefix) ==
  IF TooLong(state.currentLine, word, limit)
  THEN [lines       |-> Append(state.lines, trimEnd(state.currentLine)),
        currentLine |-> prefix]
  ELSE [lines       |-> state.lines,
        currentLine |-> state.currentLine \o word \o <<" ">>]

\* for (const word of words) { ... }
RECURSIVE LineLoop(_, _, _, _)
LineLoop(state, words, limit, prefix) ==
  IF words = <<>> THEN state
  ELSE LineLoop(LineStep(state, Head(words), limit, prefix),
                Tail(words), limit, prefix)

\* The lines of withinCharLimit(text, limit, { prefix, asArray }).
withinCharLimitLines(text, limit, prefix) ==
  LET start == [lines |-> <<>>, currentLine |-> prefix]
      end   == LineLoop(start, splitWhiteSpace(text), limit, prefix)
  IN IF end.currentLine # <<>>
     THEN Append(end.lines, trimEnd(end.currentLine))
     ELSE end.lines

\* return asArray ? lines : lines.join('\n')
withinCharLimitResult(lines, asArray) ==
  IF asArray THEN lines ELSE join(lines, <<"\n">>)

withinCharLimit ==
  /\ call = NoLibraryCall
  /\ \E text \in Paragraphs, limit \in Limits, prefix \in Prefixes,
        asArray \in BOOLEAN :
       LET lines == withinCharLimitLines(text, limit, prefix)
       IN call' = [fn       |-> "withinCharLimit",
                   text     |-> text,
                   limit    |-> limit,
                   prefix   |-> prefix,
                   asArray  |-> asArray,
                   returned |-> withinCharLimitResult(lines, asArray)]
  /\ UNCHANGED <<pc, args, taskStarted, now, tickLoop, interval, jumpTimer,
                 waitTimer, percentage, tick, currentMSLeft, reports, resolved,
                 resolvedAt, reportsAtResolve, cancelled>>

\* ======================================== VSCX.camelize, VSCX.pascalize
MaxNameLen == 4

NameChars == {"a", "B", "1", "_", " "}

NameTexts == UNION {[1..n -> NameChars] : n \in 0..MaxNameLen}

\* The characters of the class [a-zA-Z0-9] that can occur.
Alphanumeric == {"a", "A", "b", "B", "1"}

\* String.prototype.toLowerCase and toUpperCase, character by character.
LowerChar(c) == IF c = "A" THEN "a" ELSE IF c = "B" THEN "b" ELSE c

UpperChar(c) == IF c = "a" THEN "A" ELSE IF c = "b" THEN "B" ELSE c

toLowerCase(s) == [i \in 1..Len(s) |-> LowerChar(s[i])]

toUpperCase(s) == [i \in 1..Len(s) |-> UpperChar(s[i])]

\* text.match(/^_+/): the leading run of underscores, or null.
matchLeadingUnderscores(s) ==
  LET others == {i \in 1..Len(s) : s[i] # "_"}
      first == IF others = {} THEN Len(s) + 1
               ELSE CHOOSE i \in others : \A j \in others : i <= j
  IN IF first = 1 THEN Null ELSE Str(SubSeq(s, 1, first - 1))

\* text.match(/_+$/): the trailing run of underscores, or null.
matchTrailingUnderscores(s) ==
  LET others == {i \in 1..Len(s) : s[i] # "_"}
      last == IF others = {} THEN 0
              ELSE CHOOSE i \in others : \A j \in others : i >= j
  IN IF last = Len(s) THEN Null ELSE Str(SubSeq(s, last + 1, Len(s)))

\* if (keepOuterUnderscores) { ... }: the underscores put back at one end.
keptUnderscores(keepOuterUnderscores, found) ==
  IF keepOuterUnderscores /\ found # Null THEN found.value ELSE <<>>

\* s.split(/[^a-zA-Z0-9]+/): the pieces between the runs of other
\* characters; a run at either end leaves an empty piece there.
RECURSIVE splitNonAlphanumeric(_)
splitNonAlphanumeric(s) ==
  LET seps == {i \in 1..Len(s) : s[i] \notin Alphanumeric}
  IN IF seps = {} THEN <<s>>
     ELSE
       LET i == CHOOSE k \in seps : \A j \in seps : k <= j
           rest == {k \in (i + 1)..Len(s) : s[k] \in Alphanumeric}
           next == IF rest = {} THEN Len(s) + 1
                   ELSE CHOOSE k \in rest : \A j \in rest : k <= j
       IN <<SubSeq(s, 1, i - 1)>>
            \o splitNonAlphanumeric(SubSeq(s, next, Len(s)))

\* text.trim().split(/[^a-zA-Z0-9]+/).filter((w) => w)
wordsOf(text) ==
  SelectSeq(splitNonAlphanumeric(trim(text)), LAMBDA w : w # <<>>)

\* w.charAt(0).toUpperCase() + w.slice(1).toLowerCase()
capitalize(w) ==
  toUpperCase(SubSeq(w, 1, 1)) \o toLowerCase(SubSeq(w, 2, Len(w)))

capitalizeAll(words) == [i \in 1..Len(words) |-> capitalize(words[i])]

\* The value camelize returns, or the TypeError that reading
\* words[0].toLowerCase throws when there is no word.
camelizeResult(text, keepOuterUnderscores) ==
  LET startUnderscores ==
        keptUnderscores(keepOuterUnderscores, matchLeadingUnderscores(text))
      endUnderscores ==
        keptUnderscores(keepOuterUnderscores, matchTrailingUnderscores(text))
      words == wordsOf(text)
  IN IF words = <<>>
     THEN [type |-> "TypeError"]
     ELSE Str(startUnderscores \o toLowerCase(words[1])
                \o join(capitalizeAll(Tail(words)), <<>>)
                \o endUnderscores)

\* The value pascalize returns.
pascalizeResult(text, keepOuterUnderscores) ==
  LET startUnderscores ==
        keptUnderscores(keepOuterUnderscores, matchLeadingUnderscores(text))
      endUnderscores ==
        keptUnderscores(keepOuterUnderscores, matchTrailingUnderscores(text))
  IN Str(startUnderscores \o join(capitalizeAll(wordsOf(text)), <<>>)
           \o endUnderscores)

camelize ==
  /\ call = NoLibraryCall
  /\ \E text \in NameTexts, keepOuterUnderscores \in BOOLEAN :
       call' = [fn                   |-> "camelize",
                text                 |-> text,
                keepOuterUnderscores |-> keepOuterUnderscores,
                returned |-> camelizeResult(text, keepOuterUnderscores)]
  /\ UNCHANGED <<pc, args, taskStarted, now, tickLoop, interval, jumpTimer,
                 waitTimer, percentage, tick, currentMSLeft, reports, resolved,
                 resolvedAt, reportsAtResolve, cancelled>>

pascalize ==
  /\ call = NoLibraryCall
  /\ \E text \in NameTexts, keepOuterUnderscores \in BOOLEAN :
       call' = [fn                   |-> "pascalize",
                text                 |-> text,
                keepOuterUnderscores |-> keepOuterUnderscores,
                returned |-> pascalizeResult(text, keepOuterUnderscores)]
  /\ UNCHANGED <<pc, args, taskStarted, now, tickLoop, interval, jumpTimer,
                 waitTimer, percentage, tick, currentMSLeft, reports, resolved,
                 resolvedAt, reportsAtResolve, cancelled>>

LibNext ==
  \/ quickpick
  \/ indent
  \/ withinCharLimit
  \/ camelize
  \/ pascalize
  \/ \E commandNames \in NameLists, commands \in SUBSET CommandIds :
       commandExists(commandNames, commands)
  \/ \E options \in OptionsGiven : getInput(options)
  \/ getInputAgain
  \/ \E answer \in InputBoxAnswers : InputBoxSettles(answer)

LibSpec == Init /\ [][LibNext]_vars

\* ------------------------------------------ reading quickpick's results
\* A string item has been converted.
Converted == call.fn = "quickpick"

Contains(s, p) == \E i \in 1..Len(s) : startsWith(SubSeq(s, i, Len(s)), p)

\* The text before, and after, the first occurrence of p in s.
Before(s, p) ==
  LET i == CHOOSE k \in 1..Len(s) :
             /\ startsWith(SubSeq(s, k, Len(s)), p)
             /\ \A j \in 1..(k - 1) : ~startsWith(SubSeq(s, j, Len(s)), p)
  IN SubSeq(s, 1, i - 1)

After(s, p) == SubSeq(s, Len(Before(s, p)) + Len(p) + 1, Len(s))

\* s without its leading and trailing white space.
Stripped(s) ==
  LET ink == {i \in 1..Len(s) : s[i] \notin WhiteSpace}
  IN IF ink = {} THEN <<>>
     ELSE SubSeq(s, CHOOSE i \in ink : \A j \in ink : i <= j,
                    CHOOSE i \in ink : \A j \in ink : i >= j)

Padded(s) ==
  s # <<>> /\ (Head(s) \in WhiteSpace \/ s[Len(s)] \in WhiteSpace)

IsSeparator(entry) == "kind" \in DOMAIN entry /\ entry.kind = "SEP"

\* The text after the five-character marker.
Caption(s) == SubSeq(s, Len(Marker) + 1, Len(s))

\* C11: a string that starts with '-----' becomes a separator entry whose
\* label is the rest of the string after the marker, without its leading
\* white space ('----- a' gives the label 'a').
C11_SeparatorLabelIsCaption ==
  (Converted /\ startsWith(call.item, Marker)) =>
    /\ IsSeparator(call.entry)
    /\ call.entry.label = trimStart(Caption(call.item))

LabelEnd == <<":", ":">>

DetailStart == <<"?", "?">>

\* C12: for a string that does not start with '-----' and contains '::',
\* the label is the trimmed text before the first '::'; the remainder after
\* it keeps any later '::'; if the remainder contains '??' the description
\* is the trimmed text before the first '??' and the detail the trimmed text
\* after it, otherwise the description is the trimmed remainder and the
\* detail is empty.
C12_LabelDescriptionDetail ==
  (Converted /\ ~startsWith(call.item, Marker)
             /\ Contains(call.item, LabelEnd)) =>
    LET rest == After(call.item, LabelEnd)
    IN /\ call.entry.label = Stripped(Before(call.item, LabelEnd))
       /\ IF Contains(rest, DetailStart)
          THEN /\ call.entry.description = Stripped(Before(rest, DetailStart))
               /\ call.entry.detail = Stripped(After(rest, DetailStart))
          ELSE /\ call.entry.description = Stripped(rest)
               /\ call.entry.detail = <<>>

\* A converted string with a second '::' and a '??' after the first '::'.
C12_Witness ==
  /\ Converted
  /\ ~startsWith(call.item, Marker)
  /\ Contains(call.item, LabelEnd)
  /\ Contains(After(call.item, LabelEnd), DetailStart)
  /\ Contains(call.entry.description, LabelEnd)
  /\ call.entry.label # <<>>
  /\ call.entry.detail # <<>>

\* C13: for a string that does not start with '-----', has no '::' and
\* contains '??', the detail is the trimmed text after the first '??' and the
\* description is the trimmed text before it.
C13_DescriptionBeforeDetail ==
  (Converted /\ ~startsWith(call.item, Marker)
             /\ ~Contains(call.item, LabelEnd)
             /\ Contains(call.item, DetailStart)) =>
    /\ call.entry.detail = Stripped(After(call.item, DetailStart))
    /\ call.entry.description = Stripped(Before(call.item, DetailStart))

\* C13 (as the code has it): for such a string the detail is the trimmed
\* text after the first '??' and the description stays empty.
C13_DetailOnly ==
  (Converted /\ ~startsWith(call.item, Marker)
             /\ ~Contains(call.item, LabelEnd)
             /\ Contains(call.item, DetailStart)) =>
    /\ call.entry.detail = Stripped(After(call.item, DetailStart))
    /\ call.entry.description = <<>>

\* A converted 'a??a': text on both sides of the '??' and no '::'.
C13_Witness ==
  /\ Converted
  /\ ~startsWith(call.item, Marker)
  /\ ~Contains(call.item, LabelEnd)
  /\ Contains(call.item, DetailStart)
  /\ Stripped(Before(call.item, DetailStart)) # <<>>
  /\ call.entry.detail # <<>>

AlwaysShown(entry) == "alwaysShow" \in DOMAIN entry /\ entry.alwaysShow = TRUE

\* C14: every string that does not start with '-----', the empty string
\* included, gives an entry with alwaysShow = true.
C14_PlainEntryAlwaysShown ==
  (Converted /\ ~startsWith(call.item, Marker)) => AlwaysShown(call.entry)

\* The empty string has been converted.
C14_Witness ==
  Converted /\ call.item = <<>> /\ ~IsSeparator(call.entry)

\* C15: every entry the parser returns, those for separator strings
\* included, carries alwaysShow = true.
C15_EveryEntryAlwaysShown == Converted => AlwaysShown(call.entry)

\* C15 (as the code has it): an entry that is not a separator carries
\* alwaysShow = true, and a separator entry carries no alwaysShow at all.
C15_AlwaysShownUnlessSeparator ==
  Converted =>
    IF IsSeparator(call.entry)
    THEN "alwaysShow" \notin DOMAIN call.entry
    ELSE AlwaysShown(call.entry)

\* A separator string with a caption has been converted.
C15_Witness ==
  /\ Converted
  /\ IsSeparator(call.entry)
  /\ Stripped(Caption(call.item)) # <<>>

\* The entry carries no text in the field: the field is absent or empty.
NoText(entry, field) == field \notin DOMAIN entry \/ entry[field] = <<>>

\* C16: a string that starts with '-----' gives a separator entry with no
\* description and no detail, whatever follows the marker ('::' and '??'
\* included), and no other string gives a separator entry.
C16_SeparatorIffMarker ==
  Converted =>
    /\ IsSeparator(call.entry) <=> startsWith(call.item, Marker)
    /\ IsSeparator(call.entry) =>
         /\ NoText(call.entry, "description")
         /\ NoText(call.entry, "detail")

\* A converted separator string with '::' and '??' after the marker.
C16_Witness ==
  /\ Converted
  /\ IsSeparator(call.entry)
  /\ Contains(Caption(call.item), LabelEnd)
  /\ Contains(Caption(call.item), DetailStart)

TextFields == {"label", "description", "detail"}

\* C17: for every input string, the label, the description and the detail
\* of the returned entry have no leading and no trailing white space.
C17_FieldsAreTrimmed ==
  Converted =>
    \A field \in TextFields \cap DOMAIN call.entry :
      ~Padded(call.entry[field])

\* A converted string with white space around its label and its description.
C17_Witness ==
  /\ Converted
  /\ Contains(call.item, LabelEnd)
  /\ Padded(Before(call.item, LabelEnd))
  /\ Padded(After(call.item, LabelEnd))
  /\ call.entry.label # <<>>
  /\ call.entry.description # <<>>

Chars == {"-", ":", "?", " ", "a"}

IsString(v) == v \in Seq(Chars)

HasString(entry, field) == field \in DOMAIN entry /\ IsString(entry[field])

\* Every field of the entry is a string.
AllStrings(entry) == \A field \in TextFields : HasString(entry, field)

\* The label is a string, and so are the description and the detail unless
\* the item starts with the marker, when the entry has neither.
StringsUnlessSeparator(item, entry) ==
  /\ HasString(entry, "label")
  /\ IF startsWith(item, Marker)
     THEN DOMAIN entry \cap TextFields = {"label"}
     ELSE AllStrings(entry)

\* The parser returns an entry for the item.
YieldsEntry(item) == "label" \in DOMAIN _strToQP(item)

\* C18: the parser is total: every input string yields an entry, and in that
\* entry the label, the description and the detail are all strings (the
\* empty string when the input gives no value).
C18_TotalWithStringFields ==
  /\ call = NoLibraryCall => \A item \in Texts : YieldsEntry(item)
  /\ Converted => AllStrings(call.entry)

\* C18 (as the code has it): every input string yields an entry with a
\* string label; the entry of a string that does not start with '-----' has
\* a string description and a string detail as well, and a separator entry
\* has neither field.
C18_TotalWithStringLabel ==
  /\ call = NoLibraryCall => \A item \in Texts : YieldsEntry(item)
  /\ Converted => StringsUnlessSeparator(call.item, call.entry)

\* A converted string with no '::' and no '??': two fields have no value.
C18_Witness ==
  /\ Converted
  /\ ~startsWith(call.item, Marker)
  /\ call.item # <<>>
  /\ call.entry.description = <<>>
  /\ call.entry.detail = <<>>

\* -------------------------------------- reading commandExists' results
Registered(name) == name \in call.commands

GivenNames == {call.commandNames[i] : i \in 1..Len(call.commandNames)}

\* C19: commandExists returns true exactly when all the given command names
\* are registered, and false as soon as one of them is not.
C19_TrueIffAllRegistered ==
  call.fn = "commandExists" =>
    (call.returned <=> \A name \in GivenNames : Registered(name))

\* ------------------------------------------- reading getInput's results
\* A call of getInput has returned.
InputReturned == call.fn = "getInput" /\ call.pc = "returned"

\* The box was cancelled: the host resolved showInputBox with undefined.
BoxCancelled == call.answer = Undefined

\* The call was given an options object that has the valueOnCancel option.
OptionGiven ==
  /\ call.given.type = "object"
  /\ "valueOnCancel" \in DOMAIN call.given.fields

\* C20: getInput returns the submitted value, the empty string included, when
\* the box is accepted; when the box is cancelled it returns
\* options.valueOnCancel if that option was given, whatever its value, and
\* undefined otherwise (also when options is a plain prompt string).
C20_SubmittedOrValueOnCancel ==
  InputReturned =>
    call.returned = IF ~BoxCancelled THEN call.answer
                    ELSE IF OptionGiven THEN call.given.fields.valueOnCancel
                    ELSE Undefined

\* A cancelled call that was given a falsy valueOnCancel other than
\* undefined.
C20_Witness ==
  /\ InputReturned
  /\ BoxCancelled
  /\ OptionGiven
  /\ call.given.fields.valueOnCancel = Num(0)

\* ------------------------------------------------ reading VSCX.indent
IndentRead == call.fn = "indent"

\* C21: for every current indentation level c >= 0 and every integer n,
\* offset(n) returns the indentation text of level c + n: the editor's indent
\* text repeated c + n times when c + n > 0, and the empty string otherwise.
C21_OffsetIsLevelText ==
  IndentRead =>
    call.returned =
      IF call.currentLevel + call.n > 0
      THEN Str(repeat(indentText(call.options), call.currentLevel + call.n))
      ELSE Str(<<>>)

\* C22: indent.current is the text of the indentation of the current line
\* (the indents found before the first character that is not white space,
\* joined), and it never contains the content of the line.
C22_CurrentIsIndentation ==
  IndentRead =>
    /\ call.current = join(call.list, <<>>)
    /\ \A i \in 1..Len(call.current) : call.current[i] \in WhiteSpace

\* ----------------------------------------- reading withinCharLimit
Chopped == call.fn = "withinCharLimit"

\* The lines of the result: the array, or the pieces between the line
\* breaks of the string.
ResultLines ==
  IF call.asArray THEN call.returned
  ELSE stringSplit(call.returned, <<"\n">>)

\* C23: every line produced by withinCharLimit(text, limit, {prefix}) has at
\* most limit characters, the prefix counted, for every text and every
\* prefix no longer than limit.
C23_LinesWithinLimit ==
  (Chopped /\ Len(call.prefix) <= call.limit) =>
    \A i \in 1..Len(ResultLines) : Len(ResultLines[i]) <= call.limit

\* A result of two lines, the first as long as the limit, with a prefix.
C23_Witness ==
  /\ Chopped
  /\ call.prefix # <<>>
  /\ Len(call.prefix) < call.limit
  /\ Len(ResultLines) = 2
  /\ Len(ResultLines[1]) = call.limit

\* The words of a text: its pieces between white space that are not empty.
Words(s) == SelectSeq(splitWhiteSpace(s), LAMBDA w : w # <<>>)

\* The words of a result line, after its prefix.
LineWords(line) ==
  IF startsWith(line, call.prefix)
  THEN Words(SubSeq(line, Len(call.prefix) + 1, Len(line)))
  ELSE <<>>

RECURSIVE WordsOfLines(_)
WordsOfLines(lines) ==
  IF lines = <<>> THEN <<>>
  ELSE LineWords(Head(lines)) \o WordsOfLines(Tail(lines))

\* Every word of the text fits on a line of its own after the prefix.
EveryWordFits ==
  \A i \in 1..Len(Words(call.text)) :
    Len(call.prefix) + Len(Words(call.text)[i]) <= call.limit

\* C27: withinCharLimit loses no text: when every word of the text together
\* with the prefix fits within the limit, every word of the text appears in
\* the output lines exactly once and in its original order.
C27_NoWordLost ==
  (Chopped /\ EveryWordFits) => WordsOfLines(ResultLines) = Words(call.text)

\* --------------------------------------------- temporaryMessage, further
\* C24: the tick timer and the one-shot 100% timer are not ordered against
\* each other: the 100% callback leaves the tick timer as it is and a tick
\* callback leaves the 100% timer as it is, so that with an endLength smaller
\* than the tick interval a tick callback can still fire after the 100% jump
\* and before the operation resolves.
C24_TimersNotOrdered ==
  [][/\ Cardinality(JumpIndices') > Cardinality(JumpIndices) =>
          interval' = interval
     /\ Cardinality(TickIndices') > Cardinality(TickIndices) =>
          jumpTimer' = jumpTimer]_vars

\* The last report is a tick, made after the 100% report and before the
\* resolution, in a run whose endLength is below the tick interval.
C24_Witness ==
  /\ ~resolved
  /\ 0 < args.endLength
  /\ args.endLength < TickDelay(args)
  /\ JumpIndices # {}
  /\ Len(reports) \in TickIndices
  /\ \E j \in JumpIndices : j < Len(reports)

\* --------------------------------------------------- quickpick, further
\* The text searched for '??': what follows the first '::', or the whole
\* item when it has no '::'.
Remainder(item) ==
  IF Contains(item, LabelEnd) THEN After(item, LabelEnd) ELSE item

\* The remainder of the converted item has the form D??T1??T2.
TwoDetailTokens ==
  /\ Converted
  /\ ~startsWith(call.item, Marker)
  /\ Contains(Remainder(call.item), DetailStart)
  /\ Contains(After(Remainder(call.item), DetailStart), DetailStart)

\* C25: '??' splits the remainder only at its first occurrence: for a
\* remainder D??T1??T2 the description is the trimmed D and the detail is the
\* trimmed 'T1??T2', the later '??' staying inside the detail.
C25_SplitsAtFirstDetailToken ==
  TwoDetailTokens =>
    /\ call.entry.description =
         Stripped(Before(Remainder(call.item), DetailStart))
    /\ call.entry.detail = Stripped(After(Remainder(call.item), DetailStart))

\* C25 (as the code has it): for a remainder D??T1??T2 the detail is the
\* trimmed 'T1??T2'; the description is the trimmed D when the remainder
\* follows a '::', and stays empty when the item has no '::'.
C25_DetailKeepsLaterTokens ==
  TwoDetailTokens =>
    /\ call.entry.detail = Stripped(After(Remainder(call.item), DetailStart))
    /\ call.entry.description =
         IF Contains(call.item, LabelEnd)
         THEN Stripped(Before(Remainder(call.item), DetailStart))
         ELSE <<>>

\* A converted item with a '::', a description, and a second '??' that has
\* stayed in the detail.
C25_Witness ==
  /\ TwoDetailTokens
  /\ Contains(call.item, LabelEnd)
  /\ call.entry.description # <<>>
  /\ Contains(call.entry.detail, DetailStart)

\* --------------------------------------------------- getInput, further
\* C26: getInput leaves the caller's options object unchanged, so that over
\* any sequence of calls with the same options object whose valueOnCancel is
\* v, every cancelled call returns v.
C26_OptionsUnchanged ==
  (call.fn = "getInput" /\ call.first.type = "object") =>
    /\ call.options = call.first
    /\ (InputReturned /\ BoxCancelled
          /\ "valueOnCancel" \in DOMAIN call.first.fields) =>
         call.returned = call.first.fields.valueOnCancel

\* The sum of the increments of the reports, as a host that does not cap them
\* would add them up.
RECURSIVE TotalIncrement(_)
TotalIncrement(seq) ==
  IF seq = <<>> THEN 0
  ELSE TotalIncrement(SubSeq(seq, 1, Len(seq) - 1)) + seq[Len(seq)].increment

\* C28: over a whole temporaryMessage run, the sum of all the increments
\* reported to the host (the 0 report, every tick report of 100 / ticks and
\* the 100 jump report) never exceeds 100.
C28_TotalIncrementAtMost100 ==
  ~resolved => TotalIncrement(reports) <= FromInt(100)

\* C29: when the parser takes a detail from a string that has no '::' (the
\* form L??T), the label is the trimmed text before the '??' only: it never
\* contains the '??' token or the detail text.
C29_LabelBeforeDetail ==
  (Converted /\ ~startsWith(call.item, Marker)
             /\ ~Contains(call.item, LabelEnd)
             /\ Contains(call.item, DetailStart)) =>
    /\ call.entry.label = Stripped(Before(call.item, DetailStart))
    /\ ~Contains(call.entry.label, DetailStart)

\* --------------------------------------- reading camelize and pascalize
\* The text has no letter and no digit.
NoWord == \A i \in 1..Len(call.text) : call.text[i] \notin Alphanumeric

\* C30: camelize returns a string for every input string, the empty string
\* and the strings without a letter or digit included (for which pascalize
\* returns the empty string or only the kept underscores); it never throws.
C30_CamelizeReturnsString ==
  /\ call.fn = "camelize" => call.returned.type = "string"
  /\ (call.fn = "pascalize" /\ NoWord) =>
       /\ call.returned.type = "string"
       /\ \A i \in 1..Len(call.returned.value) : call.returned.value[i] = "_"

====
